---------------------------- MODULE Spec2Model ----------------------------
(***************************************************************************)
(* Model of the IVR discovery engine: the deterministic transcript-to-tree *)
(* merger (extract.ts), the discovery loop (discover.ts), the session      *)
(* ledger (persist.ts) and the calling provider as seen through            *)
(* bland/call.ts and bland/transcript.ts.                                  *)
(*                                                                         *)
(* Text is a sequence of tokens (words, digits, punctuation marks, and a   *)
(* " " token for leading or trailing white space); white space between two *)
(* tokens is implicit.  A node id is the sequence of characters of         *)
(* path.join('-'), or <<"ROOT">>.                                          *)
(***************************************************************************)
EXTENDS Integers, Sequences, FiniteSets, TLC

\* ------------------------------------------------------------------------
\* Bounds of the model
\* ------------------------------------------------------------------------

\* longest transcript merged in one step
MaxLen == 3
\* number of merges in a behaviour of SpecMerge
MaxMerges == 2
\* utterances merged in a behaviour of SpecMerge, over all its merges
MaxUtterances == 4
\* runs of DiscoverService.run started on the one session identity
MaxRuns == 2
\* calls the provider accepts in a behaviour; it rejects the next ones
MaxProviderCalls == 2
\* status queries of one poll that do not end it
MaxPolls == 1
\* successful iterations recorded in one ledger
MaxLedger == 3
\* consecutive failed status queries counted in one poll (more count as this)
MaxStreak == 3
\* sentences of a text given to the option parser
MaxSentences == 3

\* ------------------------------------------------------------------------
\* Text helpers
\* ------------------------------------------------------------------------

\* null or undefined where a string is expected
Null == "null"
\* a null targetNodeId or parentId (an id is never the empty string)
NoId == << >>
\* a null or missing number; a number n is <<n>>
NoNumber == << >>

DigitChars == {"0", "1", "2", "3", "4", "5", "6", "7", "8", "9"}

\* String.prototype.toLowerCase on one token (the /i flag of the patterns)
LowerTok(t) ==
  CASE t = "Press" -> "press"
    [] t = "Dial" -> "dial"
    [] t = "For" -> "for"
    [] t = "To" -> "to"
    [] t = "If" -> "if"
    [] t = "Pressed" -> "pressed"
    [] t = "Button:" -> "button:"
    [] t = "Sales" -> "sales"
    [] t = "Support" -> "support"
    [] t = "Billing" -> "billing"
    [] t = "Goodbye" -> "goodbye"
    [] OTHER -> t

LowerText(s) == [i \in 1..Len(s) |-> LowerTok(s[i])]

RECURSIVE TrimLeft(_)
TrimLeft(s) == IF s # << >> /\ Head(s) = " " THEN TrimLeft(Tail(s)) ELSE s

RECURSIVE TrimRight(_)
TrimRight(s) ==
  IF s # << >> /\ s[Len(s)] = " " THEN TrimRight(SubSeq(s, 1, Len(s) - 1)) ELSE s

\* String.prototype.trim
Trim(s) == TrimRight(TrimLeft(s))

\* path.join('-')
RECURSIVE JoinDash(_)
JoinDash(path) ==
  IF path = << >> THEN << >>
  ELSE IF Len(path) = 1 THEN <<path[1]>>
  ELSE <<path[1], "-">> \o JoinDash(Tail(path))

RootId == <<"ROOT">>

\* path.join('-') || 'ROOT'
PathId(path) == IF JoinDash(path) = << >> THEN RootId ELSE JoinDash(path)


\* ------------------------------------------------------------------------
\* Option parser (extract.ts, parseOptions)
\* ------------------------------------------------------------------------

SentenceEnd == {".", "!", "?"}

\* one sentence, trimmed; dropped when empty (.map(trim).filter(Boolean))
KeepSentence(cur) == IF Trim(cur) = << >> THEN << >> ELSE <<Trim(cur)>>

RECURSIVE SplitAcc(_, _)
SplitAcc(s, cur) ==
  IF s = << >> THEN KeepSentence(cur)
  ELSE LET c2 == Append(cur, Head(s)) IN
       IF Head(s) \in SentenceEnd /\ Len(s) > 1
       THEN KeepSentence(c2) \o SplitAcc(Tail(s), << >>)
       ELSE SplitAcc(Tail(s), c2)

\* text.split(/(?<=[.!?])\s+/u)
splitSentences(text) == SplitAcc(text, << >>)

IsPressWord(t) == LowerTok(t) \in {"press", "dial"}

\* (?:press|dial)\s*[0-9]\b matches at token k
PressAt(s, k) ==
  k >= 1 /\ k + 1 <= Len(s) /\ IsPressWord(s[k]) /\ s[k + 1] \in DigitChars

MinOf(S) == CHOOSE x \in S : \A y \in S : x <= y
MaxOf(S) == CHOOSE x \in S : \A y \in S : x >= y

FirstPress(s, from) ==
  LET ks == {k \in from..Len(s) : PressAt(s, k)}
  IN IF ks = {} THEN 0 ELSE MinOf(ks)

\* PRESS_AFTER_LABEL_RE: ^(?<label>.+?)\s*,?\s*(?:press|dial)\s*(?<digit>[0-9])\b
\* the lazy label ends before the first press phrase that leaves it non-empty
PressAfterLabel(s) ==
  LET k == FirstPress(s, 2)
      raw == SubSeq(s, 1, k - 1)
      lab == IF Len(raw) > 1 /\ raw[Len(raw)] = ","
             THEN SubSeq(raw, 1, Len(raw) - 1) ELSE raw
  IN IF k = 0 THEN [digit |-> "", label |-> << >>]
     ELSE [digit |-> s[k + 1], label |-> Trim(lab)]

\* PRESS_BEFORE_LABEL_RE: \b(?:press|dial)\s*(?<digit>[0-9])\b\s*(?:for|to)\s*(?<label>.+)$
PressBeforeLabel(s) ==
  LET ks == {k \in 1..Len(s) : /\ PressAt(s, k)
                               /\ k + 3 <= Len(s)
                               /\ LowerTok(s[k + 2]) \in {"for", "to"}}
      k == IF ks = {} THEN 0 ELSE MinOf(ks)
  IN IF k = 0 THEN [digit |-> "", label |-> << >>]
     ELSE [digit |-> s[k + 1], label |-> Trim(SubSeq(s, k + 3, Len(s)))]

\* the bare /\b(?:press|dial)\s*([0-9])\b/ with the press phrase and what
\* follows it removed from the sentence
PressBare(s) ==
  LET k == FirstPress(s, 1)
  IN IF k = 0 THEN [digit |-> "", label |-> << >>]
     ELSE [digit |-> s[k + 1], label |-> Trim(SubSeq(s, 1, k - 1))]

RECURSIVE StripDots(_)
StripDots(l) ==
  IF l # << >> /\ l[Len(l)] = "." THEN StripDots(SubSeq(l, 1, Len(l) - 1)) ELSE l

\* label.replace(/^if\s+/iu, '').replace(/[.]+$/u, '').trim()
CleanLabel(l) ==
  LET a == IF Len(l) > 1 /\ LowerTok(l[1]) = "if" THEN Tail(l) ELSE l
  IN Trim(StripDots(a))

\* the first pattern that matches decides the sentence
SentenceOption(s) ==
  LET m == IF PressAfterLabel(s).digit # "" THEN PressAfterLabel(s)
           ELSE IF PressBeforeLabel(s).digit # "" THEN PressBeforeLabel(s)
           ELSE PressBare(s)
  IN [digit |-> m.digit, label |-> CleanLabel(m.label)]

DefaultLabel(digit) == <<"Option", digit>>

RECURSIVE ParseAcc(_, _, _)
ParseAcc(sentences, seen, results) ==
  IF sentences = << >> THEN results
  ELSE LET o == SentenceOption(Head(sentences))
           key == <<o.digit, LowerText(o.label)>>
       IN IF o.digit = "" \/ key \in seen
          THEN ParseAcc(Tail(sentences), seen, results)
          ELSE ParseAcc(Tail(sentences), seen \cup {key},
                        Append(results,
                               [digit |-> o.digit,
                                label |-> IF o.label = << >>
                                          THEN DefaultLabel(o.digit)
                                          ELSE o.label]))

parseOptions(text) == ParseAcc(splitSentences(text), {}, << >>)

\* ------------------------------------------------------------------------
\* Tree: an arena of nodes in creation order.  nodes[1] is the root; the
\* children array of node p is the nodes with parent = p, in arena order
\* (children are only ever pushed).  The empty arena is "no tree".
\* ------------------------------------------------------------------------

NoTree == << >>

\* Math.max(0, Math.min(1, confidencePct / 100)), in percent
ClampConfidence(pct) ==
  IF pct < 0 THEN 0 ELSE IF pct > 100 THEN 100 ELSE pct

MenuConfidencePct == 95
EndConfidencePct == 90
RootConfidencePct == 95

createMenuNode(id, parentId, parent, content, confidencePct) ==
  [id |-> id, parentId |-> parentId, parent |-> parent, promptText |-> content,
   confidence |-> ClampConfidence(confidencePct), options |-> << >>]

createEndNode(id, parentId, parent, content, confidencePct) ==
  [id |-> id, parentId |-> parentId, parent |-> parent, promptText |-> content,
   confidence |-> ClampConfidence(confidencePct), options |-> << >>]

ChildrenOf(nodes, p) == {j \in 1..Len(nodes) : nodes[j].parent = p}

\* parent.children.find((c) => c.id === id): the first match, 0 when none
FindChild(nodes, p, id) ==
  LET cs == {j \in ChildrenOf(nodes, p) : nodes[j].id = id}
  IN IF cs = {} THEN 0 ELSE MinOf(cs)

\* new Map(parent.children.map((c) => [c.id, c])).get(id): the last match
MapChild(nodes, p, id) ==
  LET cs == {j \in ChildrenOf(nodes, p) : nodes[j].id = id}
  IN IF cs = {} THEN 0 ELSE MaxOf(cs)

ensureOptionReplacing(nodes, n, digit, label) ==
  [nodes EXCEPT ![n].options =
     <<[digit |-> digit, label |-> label, targetNodeId |-> NoId]>>]

ensureOption(nodes, n, digit, label) ==
  IF \E i \in 1..Len(nodes[n].options) :
        nodes[n].options[i].digit = digit /\ nodes[n].options[i].label = label
  THEN nodes
  ELSE [nodes EXCEPT ![n].options =
          Append(@, [digit |-> digit, label |-> label, targetNodeId |-> NoId])]

RECURSIVE ensureOptions(_, _, _)
ensureOptions(nodes, n, opts) ==
  IF opts = << >> THEN nodes
  ELSE ensureOptions(ensureOption(nodes, n, Head(opts).digit, Head(opts).label),
                     n, Tail(opts))

\* merge options shallowly; avoid duplicates (the seen set is taken once,
\* before the loop)
MergeOptions(existing, incoming) ==
  LET seen == {<<existing[i].digit, existing[i].label>> : i \in 1..Len(existing)}
  IN existing \o SelectSeq(incoming, LAMBDA o : <<o.digit, o.label>> \notin seen)

upsertChild(nodes, parent, child) ==
  LET e == MapChild(nodes, parent, child.id)
  IN IF e # 0
     THEN [nodes EXCEPT
             ![e].promptText = IF child.promptText # << >> THEN child.promptText ELSE @,
             ![e].confidence = IF child.confidence > @ THEN child.confidence ELSE @,
             ![e].options = MergeOptions(@, child.options)]
     ELSE Append(nodes, child)

\* returns the arena and the index of the submenu node
ensureMenuNode(nodes, parent, path, prompt) ==
  LET id == PathId(path)
      e == FindChild(nodes, parent, id)
  IN IF e # 0
     THEN [nodes |-> IF prompt # << >> THEN [nodes EXCEPT ![e].promptText = prompt]
                     ELSE nodes,
           node |-> e]
     ELSE [nodes |-> Append(nodes,
                            createMenuNode(id, nodes[parent].id, parent, prompt,
                                           MenuConfidencePct)),
           node |-> Len(nodes) + 1]

linkOptionTargetToParent(nodes, parent, digit, targetId) ==
  LET is == {i \in 1..Len(nodes[parent].options) :
               nodes[parent].options[i].digit = digit}
  IN IF is = {} THEN nodes
     ELSE [nodes EXCEPT ![parent].options[MinOf(is)].targetNodeId = nodes[parent].id]

\* the first option with that digit gets the target
linkOptionTarget(nodes, parent, digit, targetId) ==
  LET is == {i \in 1..Len(nodes[parent].options) :
               nodes[parent].options[i].digit = digit}
  IN IF is = {} THEN nodes
     ELSE [nodes EXCEPT ![parent].options[MinOf(is)].targetNodeId = targetId]

\* ------------------------------------------------------------------------
\* Graph merger (extract.ts, buildGraphDeterministic)
\* ------------------------------------------------------------------------

RECURSIVE findFirstGreeting(_)
findFirstGreeting(transcript) ==
  IF transcript = << >> THEN <<"Root">>
  ELSE IF Head(transcript).role = "user" THEN Trim(Head(transcript).message)
  ELSE findFirstGreeting(Tail(transcript))

\* /Pressed\s*Button:\s*([0-9])/i on an assistant message
isPressEvent(msg) ==
  LET m == msg.message
      ks == {k \in 1..Len(m) : /\ k + 2 <= Len(m)
                              /\ LowerTok(m[k]) = "pressed"
                              /\ LowerTok(m[k + 1]) = "button:"
                              /\ m[k + 2] \in DigitChars}
  IN IF msg.role # "assistant" \/ ks = {}
     THEN [pressed |-> FALSE, digit |-> ""]
     ELSE [pressed |-> TRUE, digit |-> m[MinOf(ks) + 2]]

NewRoot(greeting) ==
  [id |-> RootId, parentId |-> NoId, parent |-> 0, promptText |-> greeting,
   confidence |-> RootConfidencePct, options |-> << >>]

RootCursor == [node |-> 1, path |-> << >>]

\* a press event: move down into the pressed submenu
PressStep(st, digit) ==
  LET nextPath == Append(st.current.path, digit)
      submenuId == PathId(nextPath)
      sub == ensureMenuNode(st.nodes, st.current.node, nextPath, << >>)
  IN [nodes |-> linkOptionTarget(sub.nodes, st.current.node, digit, submenuId),
      current |-> [node |-> sub.node, path |-> nextPath],
      stack |-> Append(st.stack, st.current)]

\* a user line with options: a menu prompt for the current node
MenuStep(st, msg, options) ==
  [st EXCEPT !.nodes =
     ensureOptions([st.nodes EXCEPT ![st.current.node].promptText = Trim(msg.message)],
                   st.current.node, options)]

TerminalStepNoPop(st, msg) ==
  LET cur == st.current
  IN [st EXCEPT !.nodes =
        IF Len(cur.path) > 0
        THEN upsertChild(st.nodes, cur.node,
                         createEndNode(JoinDash(cur.path), st.nodes[cur.node].id,
                                       cur.node, Trim(msg.message), EndConfidencePct))
        ELSE st.nodes]

\* a user line without options: an END node under the current node, then
\* back to the previous menu (stack.pop() || root)
TerminalStep(st, msg) ==
  LET cur == st.current
      nodes2 == IF Len(cur.path) > 0
                THEN upsertChild(st.nodes, cur.node,
                                 createEndNode(JoinDash(cur.path), st.nodes[cur.node].id,
                                               cur.node, Trim(msg.message),
                                               EndConfidencePct))
                ELSE st.nodes
  IN IF st.stack = << >>
     THEN [nodes |-> nodes2, current |-> RootCursor, stack |-> << >>]
     ELSE [nodes |-> nodes2, current |-> st.stack[Len(st.stack)],
           stack |-> SubSeq(st.stack, 1, Len(st.stack) - 1)]

\* the body of the for loop over the transcript
MergeStep(st, msg) ==
  IF isPressEvent(msg).pressed THEN PressStep(st, isPressEvent(msg).digit)
  ELSE IF msg.role = "user"
       THEN IF parseOptions(msg.message) # << >>
            THEN MenuStep(st, msg, parseOptions(msg.message))
            ELSE TerminalStep(st, msg)
       ELSE st

RECURSIVE MergeWalk(_, _)
MergeWalk(st, transcript) ==
  IF transcript = << >> THEN st
  ELSE MergeWalk(MergeStep(st, Head(transcript)), Tail(transcript))

buildGraphDeterministic(transcript, currentRoot) ==
  LET root == IF currentRoot = NoTree
              THEN <<NewRoot(findFirstGreeting(transcript))>>
              ELSE currentRoot
  IN MergeWalk([nodes |-> root, current |-> RootCursor, stack |-> << >>],
               transcript).nodes

\* ------------------------------------------------------------------------
\* Transcripts the provider can return
\* ------------------------------------------------------------------------

MenuMsg ==
  [role |-> "user",
   message |-> <<"Press", "1", "for", "sales", ".", "Press", "2", "for", "support", ".">>]
BillingMsg ==
  [role |-> "user", message |-> <<"For", "billing", ",", "press", "1", ".">>]
ByeMsg == [role |-> "user", message |-> <<" ", "Goodbye", ".">>]
SalesMsg ==
  [role |-> "user",
   message |-> <<"Sales", "team", ".", "Press", "1", "for", "quotes", ".">>]
Press1Msg == [role |-> "assistant", message |-> <<"Pressed", "Button:", "1">>]
Press2Msg == [role |-> "assistant", message |-> <<"Pressed", "Button:", "2">>]
SayOneMsg == [role |-> "assistant", message |-> <<"one">>]

Messages == {MenuMsg, BillingMsg, ByeMsg, Press1Msg, Press2Msg, SayOneMsg}

RECURSIVE SeqsUpTo(_, _)
SeqsUpTo(S, n) ==
  IF n = 0 THEN {<< >>}
  ELSE LET shorter == SeqsUpTo(S, n - 1)
       IN shorter \cup {Append(q, x) : q \in {r \in shorter : Len(r) = n - 1}, x \in S}

Transcripts == SeqsUpTo(Messages, MaxLen)

\* ------------------------------------------------------------------------
\* State
\* ------------------------------------------------------------------------

VARIABLES
  mRoot,    \* the tree the merger works on (SpecMerge)
  mLast,    \* the transcript of the last merge
  mCount,   \* merges done
  mUsed,    \* utterances merged so far
  planned,  \* the last target path chosen for the tree (SpecPlan), the
            \* last result of the option parser (SpecParse), or the answer
            \* of GET /tree (SpecTree) or of POST /refine (SpecRefine)
  poll,     \* the state of one pollCallUntilDone (SpecPoll)
  disk,     \* data/<phone>.json: the persisted session, or NoFile
  provider, \* the calls placed on the provider, by call id
  run       \* the local state of each DiscoverService.run

mvars == <<mRoot, mLast, mCount, mUsed, planned, poll>>
dvars == <<disk, provider, run>>
vars == <<mRoot, mLast, mCount, mUsed, planned, poll, disk, provider, run>>

\* ------------------------------------------------------------------------
\* Session ledger (persist.ts)
\* ------------------------------------------------------------------------

\* no session file; a file holding session s is <<s>>
NoFile == << >>

createEmptySession(minCalls, maxCalls) ==
  [minCalls |-> minCalls, maxCalls |-> maxCalls, calls |-> << >>,
   snapshots |-> << >>, lastRoot |-> NoTree, totalCost |-> <<0>>]

\* typeof price === 'number' && Number.isFinite(price) ? price : 0
PriceOrZero(p) == IF p = NoNumber THEN 0 ELSE p[1]

RECURSIVE SumPrices(_)
SumPrices(calls) ==
  IF calls = << >> THEN 0 ELSE PriceOrZero(Head(calls).price) + SumPrices(Tail(calls))

appendCallKeepingTotal(session, record) ==
  [session EXCEPT !.calls = Append(@, record)]

appendCall(session, record) ==
  LET price == PriceOrZero(record.price)
      prevTotal == IF session.totalCost # NoNumber THEN session.totalCost[1]
                   ELSE SumPrices(session.calls)
  IN [session EXCEPT !.calls = Append(@, record), !.totalCost = <<prevTotal + price>>]

addSnapshot(session, root) ==
  [session EXCEPT !.lastRoot = root, !.snapshots = Append(@, root)]

\* JSON.stringify(session): the snapshots appended in this run and lastRoot
\* hold the run's one root object, so they are written as the tree is now
Payload(session, root, live) ==
  [session EXCEPT
     !.snapshots = [i \in 1..Len(@) |-> IF i > Len(@) - live THEN root ELSE @[i]],
     !.lastRoot = IF live > 0 THEN root ELSE @]

\* loadSession(phone) || createEmptySession(phone, {maxCalls, minCalls})
loadSession(file, minCalls, maxCalls) ==
  IF file = NoFile THEN createEmptySession(minCalls, maxCalls) ELSE file[1]

\* ------------------------------------------------------------------------
\* Calling provider (bland/call.ts, bland/transcript.ts)
\* ------------------------------------------------------------------------

TerminalStatuses == {"completed", "failed", "canceled"}

\* toLowerCase() on a status
LowerStatus(status) ==
  CASE status = "Completed" -> "completed"
    [] status = "FAILED" -> "failed"
    [] status = "Canceled" -> "canceled"
    [] OTHER -> status

IsTerminalAnyStatus(status) == status # Null

\* String(details.status || '').toLowerCase() is one of the terminal values
IsTerminal(status) == status # Null /\ LowerStatus(status) \in TerminalStatuses

NoDetails ==
  [error |-> Null, timeout |-> FALSE, status |-> Null, price |-> NoNumber,
   concatenated_transcript |-> << >>]

PollTimedOutUnflagged == [NoDetails EXCEPT !.error = "Polling timed out"]

\* { error: 'Polling timed out', timeout: true }
PollTimedOut == [NoDetails EXCEPT !.error = "Polling timed out", !.timeout = TRUE]

\* the concatenated transcript of a call: one "role: text" line per message
\* and a waiting marker
ConcatOf(transcript) ==
  <<[tag |-> "agent-action", text |-> <<"[waiting]">>]>>
    \o [i \in 1..Len(transcript) |->
          [tag |-> transcript[i].role, text |-> transcript[i].message]]

mapRole(role) ==
  IF role = "user" THEN "user" ELSE "assistant"

RECURSIVE parseConcatenatedTranscript(_)
parseConcatenatedTranscript(lines) ==
  IF lines = << >> THEN << >>
  ELSE LET l == Head(lines)
           text == Trim(l.text)
           skip == \/ l.tag \notin {"user", "assistant", "agent-action"}
                   \/ text = << >>
                   \/ LowerTok(text[1]) = "[waiting]"
       IN (IF skip THEN << >> ELSE <<[role |-> mapRole(l.tag), message |-> text]>>)
            \o parseConcatenatedTranscript(Tail(lines))

\* a phone number is the sequence of its characters; null is NoPhone
NoPhone == << >>

\* (trimmed.match(/\d+/g) || []).join('')
DigitsOnly(chars) == SelectSeq(chars, LAMBDA c : c \in DigitChars)

normalizePhoneAnyEleven(input) ==
  LET trimmed == Trim(input)
      digitsOnly == DigitsOnly(trimmed)
  IN IF trimmed # << >> /\ Head(trimmed) = "+" THEN trimmed
     ELSE IF Len(digitsOnly) = 11 THEN <<"+">> \o digitsOnly
     ELSE IF Len(digitsOnly) = 10 THEN <<"+", "1">> \o digitsOnly
     ELSE NoPhone

normalizePhoneToE164(input) ==
  LET trimmed == Trim(input)
      digitsOnly == DigitsOnly(trimmed)
  IN IF trimmed # << >> /\ Head(trimmed) = "+" THEN trimmed
     ELSE IF Len(digitsOnly) = 11 /\ Head(digitsOnly) = "1"
          THEN <<"+">> \o digitsOnly
     ELSE IF Len(digitsOnly) = 10 THEN <<"+", "1">> \o digitsOnly
     ELSE NoPhone

\* the answer of makeCall for a number it cannot normalize
InvalidPhone ==
  [status |-> "error", call_id |-> 0, error_message |-> "Invalid phone number"]

\* the identity of the session of Spec
SessionPhone == <<"+", "1", "5", "5", "5", "1", "2", "3", "4", "5", "6", "7">>

\* ------------------------------------------------------------------------
\* Discovery loop (discover.ts, DiscoverService.run)
\* ------------------------------------------------------------------------

Runs == 1..MaxRuns

NoOutcome == [kind |-> "none", error |-> Null]
TreeOutcome == [kind |-> "tree", error |-> Null]
ErrorOutcome(e) == [kind |-> "error", error |-> e]
ThrewOutcome == [kind |-> "threw", error |-> Null]

IdleRun ==
  [pc |-> "idle", phone |-> SessionPhone, minCalls |-> 0, maxCalls |-> 0,
   root |-> NoTree,
   session |-> createEmptySession(0, 0), live |-> 0, calls |-> 0, callId |-> 0, polls |-> 0,
   done |-> NoDetails, transcript |-> << >>, outcome |-> NoOutcome,
   failed |-> << >>, wroteInIter |-> FALSE, fetched |-> << >>, stopAt |-> << >>,
   overridePath |-> << >>]

\* DiscoverInputSchema: minCalls and maxCalls are integers in 1..10
ValidInput(input) ==
  input.minCalls \in 1..10 /\ input.maxCalls \in 1..10

\* a request without currentRoot and without preferredPath
Inputs ==
  {[minCalls |-> a, maxCalls |-> b, currentRoot |-> << >>, preferredPath |-> << >>] :
     a \in 0..2, b \in 1..2}

\* node.children, in the order in which the children were added
RECURSIVE SortedSeq(_)
SortedSeq(S) == IF S = {} THEN << >> ELSE <<MinOf(S)>> \o SortedSeq(S \ {MinOf(S)})

ChildSeq(nodes, p) == SortedSeq(ChildrenOf(nodes, p))

\* the walk of isTraversalComplete over its stack of nodes, checking the
\* options of the root only
CompleteWalkRootOnly(root, stack) ==
  \A i \in 1..Len(root[1].options) : root[1].options[i].targetNodeId # NoId

\* the walk of isTraversalComplete over its stack of nodes: the top is
\* popped, a pending option ends the walk, the children are pushed
RECURSIVE CompleteWalk(_, _)
CompleteWalk(root, stack) ==
  IF stack = << >> THEN TRUE
  ELSE LET n == stack[Len(stack)]
       IN IF \E i \in 1..Len(root[n].options) :
               root[n].options[i].targetNodeId = NoId
          THEN FALSE
          ELSE CompleteWalk(root, SubSeq(stack, 1, Len(stack) - 1)
                                    \o ChildSeq(root, n))

isTraversalComplete(root) == CompleteWalk(root, <<1>>)

LoopContinuesInclusive(calls, maxCalls) == calls <= maxCalls

\* while (calls < maxCalls)
LoopContinues(calls, maxCalls) == calls < maxCalls

ShouldStopBelowMinimum(calls, minCalls, root) == isTraversalComplete(root)

\* if (calls >= minCalls && this.isTraversalComplete(root)) break
ShouldStop(calls, minCalls, root) == calls >= minCalls /\ isTraversalComplete(root)

\* if (mk.status !== 'success' || !mk.call_id)
MakeCallFailed(mk) == mk.status # "success" \/ mk.call_id = 0

PollNeverFailed(done) == FALSE

\* if ('error' in done)
PollFailed(done) == done.error # Null

\* if ('error' in transcript)
TranscriptFailed(t) == t.error # Null

\* a run that has returned keeps what it returned, its parameters and its
\* history
Returned(rec, outcome) ==
  [IdleRun EXCEPT !.pc = "done", !.outcome = outcome,
                  !.root = IF outcome.kind = "tree" THEN rec.root ELSE NoTree,
                  !.phone = rec.phone,
                  !.minCalls = rec.minCalls, !.maxCalls = rec.maxCalls,
                  !.calls = rec.calls, !.failed = rec.failed,
                  !.wroteInIter = rec.wroteInIter, !.stopAt = rec.stopAt,
                  !.overridePath = rec.overridePath]

\* return { error }
Fail(rec, e) == Returned(rec, ErrorOutcome(e))

\* after the loop: if (!root) return { error: 'No root built' }; return { root }
Finish(rec) ==
  Returned(rec, IF rec.root = NoTree THEN ErrorOutcome("No root built")
                ELSE TreeOutcome)

\* the head of the while loop: the next call is requested or the run ends
LoopHead(rec) ==
  IF LoopContinues(rec.calls, rec.maxCalls)
  THEN [rec EXCEPT !.pc = "makeCall"]
  ELSE Finish(rec)

\* the end of the loop body
AfterIteration(rec) ==
  IF ShouldStop(rec.calls, rec.minCalls, rec.root) THEN Finish(rec) ELSE LoopHead(rec)

Placed(r) == Cardinality({c \in 1..Len(provider) : provider[c].owner = r})

\* the 20000 of Math.min(wait * 2, 20000) and the 1000 of
\* Math.max(1000, intervalMs)
BackoffCeilingMs == 20000
MinWaitMs == 1000

BackoffUncapped(wait) == wait * 2

\* wait = Math.min(wait * 2, 20000)
Backoff(wait) == IF wait * 2 < BackoffCeilingMs THEN wait * 2 ELSE BackoffCeilingMs

\* Math.max(1000, intervalMs)
BaseWait(intervalMs) == IF intervalMs > MinWaitMs THEN intervalMs ELSE MinWaitMs

\* no poll is running
IdlePoll ==
  [pc |-> "idle", intervalMs |-> 0, timeoutMs |-> 0, wait |-> 0, elapsed |-> 0,
   last |-> "none", prevWait |-> 0, fails |-> 0, streak |-> 0,
   answer |-> NoDetails, result |-> NoDetails]

\* what the provider can answer to POST /v1/calls when it places no call
MakeCallErrors == {[status |-> "error", call_id |-> 0, error_message |-> "HTTP 500"],
                   [status |-> "success", call_id |-> 0, error_message |-> Null]}

\* how a call can end at the provider
CallResults ==
  {[status |-> "completed", price |-> <<5>>,
    transcript |-> <<MenuMsg, Press1Msg, ByeMsg>>, withConcat |-> TRUE],
   [status |-> "completed", price |-> NoNumber,
    transcript |-> <<ByeMsg>>, withConcat |-> FALSE],
   [status |-> "failed", price |-> NoNumber,
    transcript |-> << >>, withConcat |-> FALSE]}

\* what summarizeAndPlanNext can return
PlanResults ==
  {[summary |-> "s", nextPath |-> << >>, terminalType |-> "none"],
   [summary |-> "s", nextPath |-> <<"2">>, terminalType |-> "dead_end"]}

Init ==
  /\ mRoot = NoTree
  /\ mLast = << >>
  /\ mCount = 0
  /\ mUsed = 0
  /\ planned = << >>
  /\ poll = IdlePoll
  /\ disk = NoFile
  /\ provider = << >>
  /\ run = [r \in Runs |-> IdleRun]

\* parsed.data.currentRoot || session.lastRoot || undefined
SeedRoot(currentRoot, session) ==
  IF currentRoot # << >> THEN currentRoot ELSE session.lastRoot

\* a run that checks for a complete tree before its first call
BeginCheckingFirst(rec, input, file) ==
  IF ~ValidInput(input) THEN Fail(rec, "Invalid input")
  ELSE LET session == loadSession(file, input.minCalls, input.maxCalls)
           seeded == [rec EXCEPT !.minCalls = input.minCalls,
                                 !.maxCalls = input.maxCalls,
                                 !.overridePath = input.preferredPath,
                                 !.session = session,
                                 !.root = SeedRoot(input.currentRoot, session),
                                 !.calls = 0, !.live = 0]
       IN IF seeded.root # NoTree /\ isTraversalComplete(seeded.root)
          THEN Finish(seeded) ELSE LoopHead(seeded)

\* run(input): the input is validated, the override path is kept and the
\* session is loaded; the working tree is the tree of the request or, when
\* there is none, the session's last tree; the first call is requested.
\* The runs are numbered in the order in which they start.
Begin(rec, input, file) ==
  IF ~ValidInput(input) THEN Fail(rec, "Invalid input")
  ELSE LET session == loadSession(file, input.minCalls, input.maxCalls)
       IN LoopHead([rec EXCEPT !.minCalls = input.minCalls,
                               !.maxCalls = input.maxCalls,
                               !.overridePath = input.preferredPath,
                               !.session = session,
                               !.root = SeedRoot(input.currentRoot, session),
                               !.calls = 0, !.live = 0])

Start(r, input) ==
  /\ run[r].pc = "idle"
  /\ \A q \in 1..(r - 1) : run[q].pc # "idle"
  /\ run' = [run EXCEPT ![r] = Begin(@, input, disk)]
  /\ UNCHANGED <<disk, provider, mvars>>

\* history: the first step of the run that ended in an error, with its
\* error and the number of calls the run had placed by then
Observed(rec, isError, e, placed) ==
  IF isError /\ rec.failed = << >>
  THEN [rec EXCEPT !.failed = <<[error |-> e, placed |-> placed]>>]
  ELSE rec

\* what run does with the answer mk of makeCall
AfterMakeCall(rec, mk, placed) ==
  LET seen == Observed(rec, mk.status # "success" \/ mk.call_id = 0,
                       IF mk.error_message # Null THEN mk.error_message
                       ELSE "Call initiation failed", placed)
  IN IF MakeCallFailed(mk)
     THEN Fail(seen, IF mk.error_message # Null THEN mk.error_message
                     ELSE "Call initiation failed")
     ELSE [seen EXCEPT !.pc = "poll", !.callId = mk.call_id, !.polls = 0]

\* the provider accepts the call and queues it
MakeCallOk(r) ==
  /\ run[r].pc = "makeCall"
  /\ normalizePhoneToE164(run[r].phone) # NoPhone
  /\ Len(provider) < MaxProviderCalls
  /\ provider' = Append(provider,
       [owner |-> r, status |-> "queued", price |-> NoNumber,
        transcript |-> << >>, concatenated_transcript |-> << >>])
  /\ run' = [run EXCEPT ![r] =
       AfterMakeCall(@, [status |-> "success", call_id |-> Len(provider) + 1,
                         error_message |-> Null], Placed(r) + 1)]
  /\ UNCHANGED <<disk, mvars>>

\* makeCall returns before any request when the number cannot be
\* normalized; else the provider answers with an error, or without a call id
MakeCallError(r) ==
  /\ run[r].pc = "makeCall"
  /\ \E mk \in (IF normalizePhoneToE164(run[r].phone) = NoPhone
                 THEN {InvalidPhone} ELSE MakeCallErrors) :
       run' = [run EXCEPT ![r] = AfterMakeCall(@, mk, Placed(r))]
  /\ UNCHANGED <<disk, provider, mvars>>

\* the call ends at the provider
ProviderFinish(c) ==
  /\ c \in 1..Len(provider)
  /\ provider[c].status = "queued"
  /\ \E res \in CallResults :
       provider' = [provider EXCEPT ![c] =
         [@ EXCEPT !.status = res.status, !.price = res.price,
                   !.transcript = res.transcript,
                   !.concatenated_transcript =
                      IF res.withConcat THEN ConcatOf(res.transcript) ELSE << >>]]
  /\ UNCHANGED <<disk, run, mvars>>

\* getCallDetails(callId), ok or not
getCallDetails(callId, ok) ==
  IF ok
  THEN [NoDetails EXCEPT
          !.status = provider[callId].status,
          !.price = provider[callId].price,
          !.concatenated_transcript = provider[callId].concatenated_transcript]
  ELSE [NoDetails EXCEPT !.error = "HTTP 429"]

\* what run does with the result of pollCallUntilDone: the structured
\* transcript is requested, or the run ends
AfterPoll(rec, done, placed) ==
  LET seen == Observed(rec, done.error # Null, done.error, placed)
  IN IF PollFailed(done)
     THEN Fail(seen, done.error)
     ELSE [seen EXCEPT !.pc = "transcript", !.done = done, !.polls = 0]

\* one status query of pollCallUntilDone
PollQuery(r) ==
  /\ run[r].pc = "poll"
  /\ \E ok \in BOOLEAN :
       LET details == getCallDetails(run[r].callId, ok)
       IN IF details.error = Null /\ IsTerminal(details.status)
          THEN run' = [run EXCEPT ![r] = AfterPoll(@, details, Placed(r))]
          ELSE /\ run[r].polls < MaxPolls
               /\ run' = [run EXCEPT ![r].polls = @ + 1]
  /\ UNCHANGED <<disk, provider, mvars>>

\* a poll loop that starts over when timeoutMs has elapsed
PollTimeoutStartsOver(r) ==
  /\ run[r].pc = "poll"
  /\ run[r].polls >= 1
  /\ run' = [run EXCEPT ![r].polls = 0]
  /\ UNCHANGED <<disk, provider, mvars>>

\* timeoutMs has elapsed at the head of the poll loop
PollTimeout(r) ==
  /\ run[r].pc = "poll"
  /\ run[r].polls >= 1
  /\ run' = [run EXCEPT ![r] = AfterPoll(@, PollTimedOut, Placed(r))]
  /\ UNCHANGED <<disk, provider, mvars>>

\* getCallTranscript(callId): the provider's utterances, none, or an error
getCallTranscript(callId, fetch) ==
  CASE fetch = "ok" -> [error |-> Null, messages |-> provider[callId].transcript]
    [] fetch = "empty" -> [error |-> Null, messages |-> << >>]
    [] OTHER -> [error |-> "HTTP 404", messages |-> << >>]

\* typeof concat === 'string' && concat.trim().length > 0, for a string
\* given as its lines (none when the field is missing)
NonBlank(concat) ==
  \E i \in 1..Len(concat) : concat[i].tag # "" \/ Trim(concat[i].text) # << >>

BestTranscriptConcatFirst(structured, done) ==
  IF NonBlank(done.concatenated_transcript)
  THEN [error |-> Null,
        messages |-> parseConcatenatedTranscript(done.concatenated_transcript)]
  ELSE structured

\* the fallback to the concatenated transcript
BestTranscript(structured, done) ==
  IF (structured.error # Null \/ structured.messages = << >>)
     /\ NonBlank(done.concatenated_transcript)
  THEN [error |-> Null,
        messages |-> parseConcatenatedTranscript(done.concatenated_transcript)]
  ELSE structured

\* the record appended for the call
CallRecordOf(rec) ==
  [callId |-> rec.callId, status |-> rec.done.status, price |-> rec.done.price,
   transcript |-> rec.transcript, planSummary |-> Null, planNextPath |-> << >>,
   terminalType |-> Null]

\* what run does with the transcript: it is merged into the run's root
\* object and the LLM extraction is awaited, or the run ends
AfterTranscript(rec, t, placed) ==
  LET seen == Observed(rec, t.error # Null, t.error, placed)
  IN IF TranscriptFailed(t)
     THEN Fail(seen, t.error)
     ELSE [seen EXCEPT !.pc = "extract", !.transcript = t.messages,
                       !.root = buildGraphDeterministic(t.messages, @)]

\* history: what getCallTranscript gave for the transcript being merged
Fetched(rec, structured) ==
  IF rec.pc = "extract" THEN [rec EXCEPT !.fetched = <<structured>>] ELSE rec

\* getCallTranscript resolves
TranscriptDone(r) ==
  /\ run[r].pc = "transcript"
  /\ \E fetch \in {"ok", "empty", "error"} :
       run' = [run EXCEPT ![r] =
         Fetched(AfterTranscript(@, BestTranscript(getCallTranscript(run[r].callId, fetch),
                                                   run[r].done),
                                 Placed(r)),
                 getCallTranscript(run[r].callId, fetch))]
  /\ UNCHANGED <<disk, provider, mvars>>

\* calls++, appendCall, addSnapshot
Recorded(rec) ==
  [rec EXCEPT !.calls = @ + 1, !.live = @ + 1,
              !.session = addSnapshot(appendCall(@, CallRecordOf(rec)), rec.root)]

saveSessionMerging(rec) ==
  LET mine == Payload(rec.session, rec.root, rec.live)
      theirs == IF disk = NoFile THEN << >>
                ELSE SelectSeq(disk[1].calls, LAMBDA c :
                       \A i \in 1..Len(mine.calls) : mine.calls[i].callId # c.callId)
  IN <<[mine EXCEPT !.calls = theirs \o @]>>

\* saveSession(phone, session)
saveSession(rec) == <<Payload(rec.session, rec.root, rec.live)>>

\* extractNodesWithLLM resolves or throws (the throw is caught); the call
\* and the snapshot are appended, the session is saved and the plan is
\* requested from the LLM
ExtractDone(r) ==
  /\ run[r].pc = "extract"
  /\ \E llmOk \in BOOLEAN :
       /\ run' = [run EXCEPT ![r] =
            [Recorded(@) EXCEPT !.pc = "plan", !.wroteInIter = TRUE,
                                !.fetched = << >>]]
       /\ disk' = saveSession(Recorded(run[r]))
  /\ UNCHANGED <<provider, mvars>>

\* session.calls[session.calls.length - 1].plan... = plan...
WithPlan(rec, plan) ==
  [rec EXCEPT !.session.calls[Len(rec.session.calls)] =
     [@ EXCEPT !.planSummary = plan.summary, !.planNextPath = plan.nextPath,
               !.terminalType = plan.terminalType]]

\* summarizeAndPlanNext resolves: the plan is put on the last call, the
\* session is saved again, the stop condition is checked and the next call
\* is requested or the run returns
PlanDone(r) ==
  /\ run[r].pc = "plan"
  /\ \E plan \in PlanResults :
       /\ disk' = saveSession(WithPlan(run[r], plan))
       /\ run' = [run EXCEPT ![r] =
            AfterIteration([WithPlan(@, plan) EXCEPT !.wroteInIter = FALSE])]
  /\ UNCHANGED <<provider, mvars>>

\* summarizeAndPlanNext rejects: nothing in run catches it
PlanThrows(r) ==
  /\ run[r].pc = "plan"
  /\ run' = [run EXCEPT ![r] = Returned(@, ThrewOutcome)]
  /\ UNCHANGED <<disk, provider, mvars>>

Next ==
  \/ \E r \in Runs, input \in Inputs : Start(r, input)
  \/ \E r \in Runs : MakeCallOk(r)
  \/ \E r \in Runs : MakeCallError(r)
  \/ \E c \in 1..MaxProviderCalls : ProviderFinish(c)
  \/ \E r \in Runs : PollQuery(r)
  \/ \E r \in Runs : PollTimeout(r)
  \/ \E r \in Runs : TranscriptDone(r)
  \/ \E r \in Runs : ExtractDone(r)
  \/ \E r \in Runs : PlanDone(r)
  \/ \E r \in Runs : PlanThrows(r)

Spec == Init /\ [][Next]_vars

\* ------------------------------------------------------------------------
\* SpecIdentity: one run, on a phone number given in any form
\* ------------------------------------------------------------------------

\* +15551234567, 5551234567, (555)123-4567, 15551234567, a number with a
\* blank before the +, 25551234567, 555123 and abc
Phones ==
  {SessionPhone,
   <<"5", "5", "5", "1", "2", "3", "4", "5", "6", "7">>,
   <<"(", "5", "5", "5", ")", "1", "2", "3", "-", "4", "5", "6", "7">>,
   <<"1", "5", "5", "5", "1", "2", "3", "4", "5", "6", "7">>,
   <<" ", "+", "4", "4", "2", "0">>,
   <<"2", "5", "5", "5", "1", "2", "3", "4", "5", "6", "7">>,
   <<"5", "5", "5", "1", "2", "3">>,
   <<"a", "b", "c">>}

\* run({phone, minCalls, maxCalls}) on the session file of that number
IdentityStart(phone, input) ==
  /\ run[1].pc = "idle"
  /\ run' = [run EXCEPT ![1] = Begin([@ EXCEPT !.phone = phone], input, disk)]
  /\ UNCHANGED <<disk, provider, mvars>>

IdentityNext ==
  \/ \E phone \in Phones, input \in Inputs : IdentityStart(phone, input)
  \/ MakeCallOk(1)
  \/ MakeCallError(1)
  \/ \E c \in 1..MaxProviderCalls : ProviderFinish(c)
  \/ PollQuery(1)
  \/ PollTimeout(1)
  \/ TranscriptDone(1)
  \/ ExtractDone(1)
  \/ PlanDone(1)
  \/ PlanThrows(1)

SpecIdentity == Init /\ [][IdentityNext]_vars

\* ------------------------------------------------------------------------
\* SpecStop: one run, and a caller that asks for it to stop
\* ------------------------------------------------------------------------

\* the caller raises a stop signal while an iteration is in progress; run
\* takes no such signal and reads none, so only the history is changed:
\* the number of calls placed when the signal was raised
RaiseStop ==
  /\ run[1].pc \in {"poll", "transcript", "extract", "plan"}
  /\ run[1].stopAt = << >>
  /\ run' = [run EXCEPT ![1].stopAt = <<Placed(1)>>]
  /\ UNCHANGED <<disk, provider, mvars>>

StopNext ==
  \/ \E input \in Inputs : Start(1, input)
  \/ RaiseStop
  \/ MakeCallOk(1)
  \/ MakeCallError(1)
  \/ \E c \in 1..MaxProviderCalls : ProviderFinish(c)
  \/ PollQuery(1)
  \/ PollTimeout(1)
  \/ TranscriptDone(1)
  \/ ExtractDone(1)
  \/ PlanDone(1)
  \/ PlanThrows(1)

SpecStop == Init /\ [][StopNext]_vars

\* ------------------------------------------------------------------------
\* SpecMerge: any sequence of merges starting from no tree
\* ------------------------------------------------------------------------

Merge(u) ==
  /\ mCount < MaxMerges
  /\ mUsed + Len(u) <= MaxUtterances
  /\ mRoot' = buildGraphDeterministic(u, mRoot)
  /\ mLast' = u
  /\ mCount' = mCount + 1
  /\ mUsed' = mUsed + Len(u)
  /\ UNCHANGED <<planned, poll, dvars>>

MergeNext == \E u \in Transcripts : Merge(u)

SpecMerge == Init /\ [][MergeNext]_vars

\* ------------------------------------------------------------------------
\* Traversal planner (discover.ts)
\* ------------------------------------------------------------------------

\* no path: an empty array, null or undefined
NoPath == << >>

\* Number.parseInt(digit, 10); NaN is -1
ParseInt(digit) ==
  CASE digit = "0" -> 0 [] digit = "1" -> 1 [] digit = "2" -> 2
    [] digit = "3" -> 3 [] digit = "4" -> 4 [] digit = "5" -> 5
    [] digit = "6" -> 6 [] digit = "7" -> 7 [] digit = "8" -> 8
    [] digit = "9" -> 9 [] OTHER -> -1

\* a.localeCompare(b) for the keys "*" and "#"
LocaleCompare(a, b) ==
  IF a = b THEN 0 ELSE IF a = "*" THEN -1 ELSE 1

\* the comparator of the sort in nextUnvisitedPath
DigitCompare(a, b) ==
  LET an == ParseInt(a)
      bn == ParseInt(b)
  IN IF an = -1 /\ bn = -1 THEN LocaleCompare(a, b)
     ELSE IF an = -1 THEN 1
     ELSE IF bn = -1 THEN -1
     ELSE an - bn

\* Array.prototype.sort is stable: o goes after the options not above it
RECURSIVE InsertSorted(_, _)
InsertSorted(o, sorted) ==
  IF sorted = << >> THEN <<o>>
  ELSE IF DigitCompare(Head(sorted).digit, o.digit) <= 0
       THEN <<Head(sorted)>> \o InsertSorted(o, Tail(sorted))
       ELSE <<o>> \o sorted

RECURSIVE SortByDigit(_)
SortByDigit(options) ==
  IF options = << >> THEN << >>
  ELSE InsertSorted(options[Len(options)],
                    SortByDigit(SubSeq(options, 1, Len(options) - 1)))

Reverse(s) == [i \in 1..Len(s) |-> s[Len(s) + 1 - i]]

Indices(s) == [i \in 1..Len(s) |-> i]

\* the stack items pushed for the linked options of a node whose child is
\* found, in the order of the options
ChildItems(root, n, path, options) ==
  LET found == SelectSeq(Indices(options), LAMBDA i :
                 /\ options[i].targetNodeId # NoId
                 /\ FindChild(root, n, options[i].targetNodeId) # 0)
  IN [k \in 1..Len(found) |->
        [node |-> FindChild(root, n, options[found[k]].targetNodeId),
         path |-> Append(path, options[found[k]].digit)]]

ScanWalkHigherFirst(root, stack) ==
  IF stack = << >> THEN NoPath
  ELSE LET top == stack[Len(stack)]
           byDigit == Reverse(SortByDigit(root[top.node].options))
           pend == {i \in 1..Len(byDigit) : byDigit[i].targetNodeId = NoId}
       IN IF pend # {} THEN Append(top.path, byDigit[MinOf(pend)].digit)
          ELSE NoPath

\* the loop of nextUnvisitedPath over its stack
RECURSIVE ScanWalk(_, _)
ScanWalk(root, stack) ==
  IF stack = << >> THEN NoPath
  ELSE LET top == stack[Len(stack)]
           byDigit == SortByDigit(root[top.node].options)
           pend == {i \in 1..Len(byDigit) : byDigit[i].targetNodeId = NoId}
       IN IF pend # {} THEN Append(top.path, byDigit[MinOf(pend)].digit)
          ELSE ScanWalk(root, SubSeq(stack, 1, Len(stack) - 1)
                           \o Reverse(ChildItems(root, top.node, top.path, byDigit)))

nextUnvisitedPath(root) ==
  IF root = NoTree THEN NoPath
  ELSE ScanWalk(root, <<[node |-> 1, path |-> << >>]>>)

CollectWalkNoDescent(root, stack, acc) ==
  LET options == root[1].options
      linked == SelectSeq(Indices(options), LAMBDA i : options[i].targetNodeId # NoId)
      open == SelectSeq(Indices(options), LAMBDA i : options[i].targetNodeId = NoId)
  IN [visitedPaths |-> [k \in 1..Len(linked) |-> <<options[linked[k]].digit>>],
      pendingPaths |-> [k \in 1..Len(open) |-> <<options[open[k]].digit>>]]

\* the loop of collectVisitedAndPendingPaths over its stack
RECURSIVE CollectWalk(_, _, _)
CollectWalk(root, stack, acc) ==
  IF stack = << >> THEN acc
  ELSE LET top == stack[Len(stack)]
           options == root[top.node].options
           linked == SelectSeq(Indices(options),
                               LAMBDA i : options[i].targetNodeId # NoId)
           open == SelectSeq(Indices(options),
                             LAMBDA i : options[i].targetNodeId = NoId)
       IN CollectWalk(root,
            SubSeq(stack, 1, Len(stack) - 1)
              \o ChildItems(root, top.node, top.path, options),
            [visitedPaths |-> acc.visitedPaths \o
               [k \in 1..Len(linked) |-> Append(top.path, options[linked[k]].digit)],
             pendingPaths |-> acc.pendingPaths \o
               [k \in 1..Len(open) |-> Append(top.path, options[open[k]].digit)]])

collectVisitedAndPendingPaths(root) ==
  IF root = NoTree THEN [visitedPaths |-> << >>, pendingPaths |-> << >>]
  ELSE CollectWalk(root, <<[node |-> 1, path |-> << >>]>>,
                   [visitedPaths |-> << >>, pendingPaths |-> << >>])

\* the planned paths of the calls, most recent first, the empty ones left
\* out, up to limit
RECURSIVE RecentAcc(_, _, _, _)
RecentAcc(calls, i, paths, limit) ==
  IF i = 0 \/ Len(paths) >= limit THEN paths
  ELSE RecentAcc(calls, i - 1,
                 IF calls[i].planNextPath # NoPath
                 THEN Append(paths, calls[i].planNextPath) ELSE paths,
                 limit)

getRecentPlannedPaths(session, limit) ==
  RecentAcc(session.calls, Len(session.calls), << >>, limit)

InSeq(x, s) == \E i \in 1..Len(s) : s[i] = x

\* the first recent path that is pending; NoPath for null
suggestNextPathFromHistory(pendingPaths, recentPaths) ==
  LET hits == {i \in 1..Len(recentPaths) : InSeq(recentPaths[i], pendingPaths)}
  IN IF pendingPaths = << >> \/ recentPaths = << >> \/ hits = {} THEN NoPath
     ELSE recentPaths[MinOf(hits)]

\* nextPath of buildTaskPrompt
TargetPath(root, suggestedNextPath, overridePath) ==
  IF suggestedNextPath # NoPath THEN suggestedNextPath
  ELSE IF overridePath # NoPath THEN overridePath
  ELSE nextUnvisitedPath(root)

\* ------------------------------------------------------------------------
\* SpecPlan: calls are merged into the tree and the target path of the next
\* call is chosen
\* ------------------------------------------------------------------------

PlanTranscripts ==
  { <<MenuMsg, Press1Msg, ByeMsg>>,
    <<MenuMsg, Press2Msg, BillingMsg>>,
    <<MenuMsg, Press1Msg, BillingMsg>>,
    <<BillingMsg, Press1Msg, MenuMsg>>,
    <<MenuMsg, Press1Msg, SalesMsg>> }

\* preferredPath of the request; NoPath when there is none
Overrides == {NoPath, <<"1">>, <<"2">>}

\* the planNextPath of the calls of the session, oldest first
PlanHistories == SeqsUpTo({NoPath, <<"1">>, <<"2">>, <<"1", "1">>}, 2)

\* the transcript of a call is merged into the tree
PlanExplore(u) ==
  /\ mCount < MaxMerges
  /\ mRoot' = buildGraphDeterministic(u, mRoot)
  /\ mLast' = u
  /\ mCount' = mCount + 1
  /\ planned' = << >>
  /\ UNCHANGED <<mUsed, poll, dvars>>

\* the head of an iteration of run: the path sets, the recent paths, the
\* suggestion and the target path of buildTaskPrompt
PlanTarget(overridePath, history) ==
  /\ planned = << >>
  /\ LET session == [createEmptySession(1, 1) EXCEPT
                       !.calls = [i \in 1..Len(history) |->
                                    [planNextPath |-> history[i]]]]
         sets == collectVisitedAndPendingPaths(mRoot)
         recentPaths == getRecentPlannedPaths(session, 5)
         suggested == suggestNextPathFromHistory(sets.pendingPaths, recentPaths)
     IN planned' = <<[overridePath |-> overridePath, recentPaths |-> recentPaths,
                      visitedPaths |-> sets.visitedPaths,
                      pendingPaths |-> sets.pendingPaths,
                      suggested |-> suggested,
                      target |-> TargetPath(mRoot, suggested, overridePath)]>>
  /\ UNCHANGED <<mRoot, mLast, mCount, mUsed, poll, dvars>>

PlanNext ==
  \/ \E u \in PlanTranscripts : PlanExplore(u)
  \/ \E overridePath \in Overrides, history \in PlanHistories :
       PlanTarget(overridePath, history)

SpecPlan == Init /\ [][PlanNext]_vars

\* ------------------------------------------------------------------------
\* SpecParse: the option parser on the text of a user message
\* ------------------------------------------------------------------------

ForSalesPress1 == <<"For", "sales", ",", "press", "1", ".">>
ForSupportPress2 == <<"For", "support", ",", "press", "2", ".">>
BillingDial3 == <<"billing", "Dial", "3", ".">>
IfSupportPress2 == <<"If", "support", ",", "press", "2", ".">>
Press9 == <<"Press", "9", ".">>
Goodbye == <<"Goodbye", ".">>

Sentences ==
  {ForSalesPress1, ForSupportPress2, BillingDial3, IfSupportPress2, Press9, Goodbye}

\* the sentences one after the other, as one text
RECURSIVE TextOf(_)
TextOf(sentences) ==
  IF sentences = << >> THEN << >> ELSE Head(sentences) \o TextOf(Tail(sentences))

\* parseOptions(msg.message) for a user message made of these sentences
ParseText(sentences) ==
  /\ planned = << >>
  /\ mLast' = <<[role |-> "user", message |-> TextOf(sentences)]>>
  /\ planned' = <<[sentences |-> sentences, options |-> parseOptions(TextOf(sentences))]>>
  /\ UNCHANGED <<mRoot, mCount, mUsed, poll, dvars>>

ParseNext == \E sentences \in SeqsUpTo(Sentences, MaxSentences) : ParseText(sentences)

SpecParse == Init /\ [][ParseNext]_vars

\* ------------------------------------------------------------------------
\* SpecPoll: one pollCallUntilDone, with its clock
\* ------------------------------------------------------------------------

PollIntervals == {500, 1000, 5000, 30000}
PollTimeouts == {20000, 45000}
PollStatuses == {Null, "in-progress", "completed", "FAILED"}
\* the time getCallDetails takes to resolve, in ms
PollLatencies == {0, 3000}

\* pollCallUntilDone(callId, {intervalMs, timeoutMs}) up to its first query
PollStart(intervalMs, timeoutMs) ==
  /\ poll.pc = "idle"
  /\ poll' = [poll EXCEPT !.pc = "query", !.intervalMs = intervalMs,
                          !.timeoutMs = timeoutMs, !.wait = BaseWait(intervalMs)]
  /\ UNCHANGED <<mRoot, mLast, mCount, mUsed, planned, dvars>>

\* getCallDetails resolves after latencyMs: the poll returns the details,
\* or sets the wait and starts to sleep
PollAnswer(ok, status, latencyMs) ==
  /\ poll.pc = "query"
  /\ LET details == IF ok THEN [NoDetails EXCEPT !.status = status]
                    ELSE [NoDetails EXCEPT !.error = "HTTP 429"]
         now == poll.elapsed + latencyMs
     IN poll' =
          IF details.error # Null
          THEN [poll EXCEPT !.pc = "wait", !.answer = details, !.last = "error",
                            !.elapsed = now,
                            !.prevWait = poll.wait, !.wait = Backoff(poll.wait),
                            !.fails = IF @ < MaxStreak THEN @ + 1 ELSE @]
          ELSE IF IsTerminal(details.status)
          THEN [poll EXCEPT !.pc = "returned", !.answer = details,
                            !.elapsed = now,
                            !.last = "terminal", !.result = details]
          ELSE [poll EXCEPT !.pc = "wait", !.answer = details, !.last = "progress",
                            !.elapsed = now,
                            !.prevWait = poll.wait,
                            !.wait = BaseWait(poll.intervalMs),
                            !.streak = poll.fails, !.fails = 0]
  /\ UNCHANGED <<mRoot, mLast, mCount, mUsed, planned, dvars>>

\* the sleep is over and the loop condition is tested: the next query is
\* sent, or the poll returns the timeout error
PollWait ==
  /\ poll.pc = "wait"
  /\ poll' = IF poll.elapsed + poll.wait < poll.timeoutMs
             THEN [poll EXCEPT !.pc = "query", !.elapsed = @ + poll.wait]
             ELSE [poll EXCEPT !.pc = "returned", !.elapsed = @ + poll.wait,
                               !.result = PollTimedOut]
  /\ UNCHANGED <<mRoot, mLast, mCount, mUsed, planned, dvars>>

PollNext ==
  \/ \E intervalMs \in PollIntervals, timeoutMs \in PollTimeouts :
       PollStart(intervalMs, timeoutMs)
  \/ \E ok \in BOOLEAN, status \in PollStatuses, latencyMs \in PollLatencies :
       PollAnswer(ok, status, latencyMs)
  \/ PollWait

SpecPoll == Init /\ [][PollNext]_vars

\* every status query resolves (the provider answers or fetch fails) and
\* every sleep ends
SpecPollFair ==
  /\ SpecPoll
  /\ WF_vars(\E ok \in BOOLEAN, status \in PollStatuses, latencyMs \in PollLatencies :
               PollAnswer(ok, status, latencyMs))
  /\ WF_vars(PollWait)

\* ------------------------------------------------------------------------
\* Claims about the merger
\* ------------------------------------------------------------------------

HasTarget(nodes) ==
  \E n \in 1..Len(nodes) : \E i \in 1..Len(nodes[n].options) :
    nodes[n].options[i].targetNodeId # NoId

\* C7: in every tree reachable by merges from no tree, every option with a
\* non-null targetNodeId points to a node in the children list of the node
\* that owns the option.
C7_TargetsAreChildren ==
  \A n \in 1..Len(mRoot) : \A i \in 1..Len(mRoot[n].options) :
    mRoot[n].options[i].targetNodeId # NoId =>
      \E c \in ChildrenOf(mRoot, n) : mRoot[c].id = mRoot[n].options[i].targetNodeId

\* a linked option below the root level, after two merges
C7_Witness ==
  /\ mCount = 2
  /\ \E n \in 2..Len(mRoot) : \E i \in 1..Len(mRoot[n].options) :
       mRoot[n].options[i].targetNodeId # NoId

\* C8 (as claimed): the tree holds at most one node with a given id.
C8_UniqueNodeIds ==
  \A i, j \in 1..Len(mRoot) : mRoot[i].id = mRoot[j].id => i = j

\* C9 (as claimed): merging the transcript just merged once more gives the
\* tree of the first merge (same nodes, options, targets and prompts).
C9_MergeIdempotent ==
  mCount > 0 => buildGraphDeterministic(mLast, mRoot) = mRoot

OptionKeys(node) ==
  {<<node.options[i].digit, node.options[i].label>> : i \in 1..Len(node.options)}

LinkedKeys(node) ==
  {<<node.options[i].digit, node.options[i].label>> :
     i \in {k \in 1..Len(node.options) : node.options[k].targetNodeId # NoId}}

Keeps(before, after) ==
  /\ Len(before) <= Len(after)
  /\ \A n \in 1..Len(before) :
       /\ after[n].id = before[n].id
       /\ after[n].parent = before[n].parent
       /\ OptionKeys(before[n]) \subseteq OptionKeys(after[n])
       /\ LinkedKeys(before[n]) \subseteq LinkedKeys(after[n])

\* C10: a merge never discards structure: every node of the tree before the
\* merge is in the tree after it (same place, same id), with every
\* (digit,label) option it had, and an option that was linked stays linked.
C10_NeverDiscards == [][Keeps(mRoot, mRoot')]_vars

\* a tree with a linked option and its child, grown over two merges
C10_Witness ==
  /\ mCount = 2
  /\ HasTarget(mRoot)
  /\ Len(mRoot) >= 4

\* ------------------------------------------------------------------------
\* Claims about the discovery loop
\* ------------------------------------------------------------------------

\* C1: a run never places more calls on the provider than its maxCalls,
\* whatever the transcripts hold and whether or not the tree is complete.
C1_CallsWithinMaxCalls ==
  \A r \in Runs : Placed(r) <= run[r].maxCalls

\* a run with minCalls > maxCalls has returned its tree after maxCalls calls
C1_Witness ==
  \E r \in Runs :
    /\ run[r].pc = "done"
    /\ run[r].outcome.kind = "tree"
    /\ run[r].minCalls > run[r].maxCalls
    /\ Placed(r) = run[r].maxCalls

Outstanding == {c \in 1..Len(provider) : ~IsTerminal(provider[c].status)}

\* C2 (as claimed): at most one call of the session identity is outstanding
\* at the provider, also when discovery is started more than once.
C2_SingleFlight == Cardinality(Outstanding) <= 1

\* C3: a run returns its tree after fewer than maxCalls iterations only when
\* the iterations done are at least minCalls and the tree is complete; and
\* a run that has done an iteration asks for the next call only when one of
\* the two does not hold.
C3_EarlyStop ==
  \A r \in Runs :
    /\ (run[r].pc = "done" /\ run[r].outcome.kind = "tree"
          /\ run[r].calls < run[r].maxCalls)
        => (run[r].calls >= run[r].minCalls /\ isTraversalComplete(run[r].root))
    /\ (run[r].pc = "makeCall" /\ run[r].calls > 0)
        => ~(run[r].calls >= run[r].minCalls /\ isTraversalComplete(run[r].root))

\* a run has stopped early, and another one goes on after an iteration
C3_Witness ==
  \E r, q \in Runs :
    /\ run[r].pc = "done" /\ run[r].outcome.kind = "tree"
    /\ run[r].calls < run[r].maxCalls
    /\ run[q].pc = "makeCall" /\ run[q].calls > 0

\* C4: once a step of an iteration has ended in an error, the run has
\* returned that error, and it has placed no call since.
C4_FirstErrorReturned ==
  \A r \in Runs :
    run[r].failed # << >> =>
      /\ run[r].pc = "done"
      /\ run[r].outcome = ErrorOutcome(run[r].failed[1].error)
      /\ Placed(r) = run[r].failed[1].placed

\* a run has failed in its second iteration
C4_Witness ==
  \E r \in Runs : run[r].failed # << >> /\ run[r].calls >= 1

\* C5 (as claimed): a run that ended in an error or an exception has not
\* written the session in the iteration that failed.
C5_WrittenOnlyAfterSuccess ==
  \A r \in Runs :
    (run[r].pc = "done" /\ run[r].outcome.kind \in {"error", "threw"})
      => ~run[r].wroteInIter

\* C6 (as claimed): no run ends in an exception because the text-extraction
\* collaborator failed.
C6_ExtractionFailuresContained ==
  \A r \in Runs : run[r].outcome.kind # "threw"

\* ------------------------------------------------------------------------
\* Claims about the session ledger
\* ------------------------------------------------------------------------

\* the tree after call k of a ledger: the transcripts of calls 1..k merged
\* one after the other, from no tree
RECURSIVE TreeAfter(_, _)
TreeAfter(calls, k) ==
  IF k = 0 THEN NoTree
  ELSE buildGraphDeterministic(calls[k].transcript, TreeAfter(calls, k - 1))

IsPrefix(a, b) == Len(a) <= Len(b) /\ \A i \in 1..Len(a) : a[i] = b[i]

LedgerPrices == {NoNumber, <<0>>, <<5>>, <<-1>>}

\* the ledger half of an iteration (discover.ts, appendCall to saveSession)
LedgerIteration(status, price, transcript) ==
  LET session == loadSession(disk, 1, 1)
      root == buildGraphDeterministic(transcript, session.lastRoot)
      record == [callId |-> Len(session.calls) + 1, status |-> status,
                 price |-> price, transcript |-> transcript,
                 planSummary |-> Null, planNextPath |-> << >>,
                 terminalType |-> Null]
  IN /\ Len(session.calls) < MaxLedger
     /\ disk' = <<addSnapshot(appendCall(session, record), root)>>
     /\ UNCHANGED <<provider, run, mvars>>

LedgerNext ==
  \E status \in {"completed", "failed"}, price \in LedgerPrices,
     transcript \in {<< >>, <<ByeMsg>>} :
    LedgerIteration(status, price, transcript)

SpecLedger == Init /\ [][LedgerNext]_vars

\* C13: in every persisted session reached from a newly created one by
\* successful iterations, totalCost is the sum of the prices of its calls,
\* a call without a price counting as 0.
C13_TotalCostIsSum ==
  disk # NoFile => disk[1].totalCost = <<SumPrices(disk[1].calls)>>

\* a ledger of priced and unpriced calls with a total above 0
C13_Witness ==
  /\ disk # NoFile
  /\ Len(disk[1].calls) >= 2
  /\ \E i, j \in 1..Len(disk[1].calls) :
       disk[1].calls[i].price = NoNumber /\ disk[1].calls[j].price = <<5>>
  /\ disk[1].totalCost = <<5>>

\* the total of the session file; 0 when there is no file
TotalOf(file) == IF file = NoFile THEN 0 ELSE file[1].totalCost[1]

\* C14 (as claimed): whatever the price of the appended call record, the
\* totalCost after the append is at least the totalCost before it.
C14_TotalCostMonotone == [][TotalOf(disk') >= TotalOf(disk)]_vars

\* ------------------------------------------------------------------------
\* Claims about polling
\* ------------------------------------------------------------------------

TerminalAnyCase ==
  {"completed", "failed", "canceled", "Completed", "FAILED", "Canceled"}

\* C19: a poll that has returned has returned either the details of a query
\* that succeeded with a terminal status (in any letter case), or the
\* timeout error once the timeout had elapsed; after a query that failed or
\* gave another status, the next query is sent only while the timeout has
\* not elapsed.
C19_OnlyTerminalEndsPoll ==
  /\ poll.pc = "returned" =>
       \/ /\ poll.last = "terminal"
          /\ poll.result = poll.answer
          /\ poll.answer.error = Null
          /\ poll.answer.status \in TerminalAnyCase
       \/ /\ poll.last \in {"error", "progress"}
          /\ poll.result = PollTimedOut
          /\ poll.elapsed >= poll.timeoutMs
  /\ poll.last \in {"error", "progress"} => poll.pc \in {"wait", "query", "returned"}
  /\ (poll.pc = "query" /\ poll.last # "none") => poll.elapsed < poll.timeoutMs

\* a poll has returned the details of a call with status FAILED, after a wait
C19_Witness ==
  /\ poll.pc = "returned"
  /\ poll.result.status = "FAILED"
  /\ poll.elapsed > 0

\* C21: every poll that was started returns; one that returns without a
\* query that succeeded with a terminal status returns the timeout error
\* (timeout: true), after timeoutMs has elapsed, whatever the failed and
\* non-terminal queries before it.
C21_PollReturns ==
  /\ (poll.pc # "idle") ~> (poll.pc = "returned")
  /\ []((poll.pc = "returned" /\ poll.last # "terminal") =>
          /\ poll.result.error = "Polling timed out"
          /\ poll.result.timeout = TRUE
          /\ poll.elapsed >= poll.timeoutMs)

\* a poll has timed out after failed queries followed by a non-terminal one
C21_Witness ==
  /\ poll.pc = "returned"
  /\ poll.result.timeout = TRUE
  /\ poll.last = "progress"
  /\ poll.streak >= 2

\* the wait after a failed query: the double of the wait before it or the
\* ceiling, never below the wait after the failed query before it
WaitsBackOff ==
  poll.last = "error" =>
    /\ poll.wait = IF 2 * poll.prevWait < 20000 THEN 2 * poll.prevWait ELSE 20000
    /\ poll.wait <= 20000
    /\ poll.fails >= 2 => poll.wait >= poll.prevWait

C15_TargetNeverVisited ==
  planned # << >> =>
    (planned[1].target # NoPath => ~InSeq(planned[1].target, planned[1].visitedPaths))

\* the recent paths that are pending, most recent first
PendingRecent(p) ==
  SelectSeq(p.recentPaths, LAMBDA r : InSeq(r, p.pendingPaths))

\* C16 (as claimed): the target is the override when the override is
\* pending; else the most recent planned path that is pending; else the
\* result of the tree scan.
C16_PriorityOrder ==
  planned # << >> =>
    planned[1].target =
      IF planned[1].overridePath # NoPath
         /\ InSeq(planned[1].overridePath, planned[1].pendingPaths)
      THEN planned[1].overridePath
      ELSE IF PendingRecent(planned[1]) # << >> THEN PendingRecent(planned[1])[1]
      ELSE nextUnvisitedPath(mRoot)

Front(path) == SubSeq(path, 1, Len(path) - 1)

\* node a is met before node b by a depth-first walk that takes the digits
\* in numeric order (a and b are the digit paths of two nodes)
RECURSIVE MetBefore(_, _)
MetBefore(a, b) ==
  IF a = << >> THEN b # << >>
  ELSE IF b = << >> THEN FALSE
  ELSE IF Head(a) = Head(b) THEN MetBefore(Tail(a), Tail(b))
  ELSE ParseInt(Head(a)) < ParseInt(Head(b))

\* pending path x comes before pending path y in the scan
ScanBefore(x, y) ==
  IF Front(x) = Front(y) THEN ParseInt(x[Len(x)]) < ParseInt(y[Len(y)])
  ELSE MetBefore(Front(x), Front(y))

\* C17: with no override and no usable history the target is the pending
\* path that comes first in the scan (nodes in depth-first order, the
\* options of a node in digit order), no path when nothing is pending; for
\* pending paths ["1"] and ["2","1"] and visited ["2"] it is ["1"].
C17_ScanOrder ==
  (planned # << >> /\ planned[1].overridePath = NoPath
     /\ planned[1].suggested = NoPath) =>
    /\ planned[1].pendingPaths = << >> => planned[1].target = NoPath
    /\ planned[1].pendingPaths # << >> =>
         /\ InSeq(planned[1].target, planned[1].pendingPaths)
         /\ \A i \in 1..Len(planned[1].pendingPaths) :
              \/ planned[1].pendingPaths[i] = planned[1].target
              \/ ScanBefore(planned[1].target, planned[1].pendingPaths[i])
    /\ ({planned[1].pendingPaths[i] : i \in 1..Len(planned[1].pendingPaths)}
          = {<<"1">>, <<"2", "1">>}
        /\ {planned[1].visitedPaths[i] : i \in 1..Len(planned[1].visitedPaths)}
          = {<<"2">>})
       => planned[1].target = <<"1">>

\* the scan has chosen ["1"] for pending ["1"], ["2","1"] and visited ["2"]
C17_Witness ==
  /\ planned # << >>
  /\ planned[1].overridePath = NoPath
  /\ planned[1].suggested = NoPath
  /\ {planned[1].pendingPaths[i] : i \in 1..Len(planned[1].pendingPaths)}
       = {<<"1">>, <<"2", "1">>}
  /\ {planned[1].visitedPaths[i] : i \in 1..Len(planned[1].visitedPaths)}
       = {<<"2">>}
  /\ planned[1].target = <<"1">>

\* C18: the completeness check reports a tree complete exactly when every
\* option of every node, at any depth, has a target.
C18_CompleteIffNoPending ==
  mRoot # NoTree =>
    (isTraversalComplete(mRoot) <=>
       \A n \in 1..Len(mRoot) : \A i \in 1..Len(mRoot[n].options) :
         mRoot[n].options[i].targetNodeId # NoId)

\* a tree with linked options is reported complete
C18_Witness ==
  /\ mRoot # NoTree
  /\ HasTarget(mRoot)
  /\ Len(mRoot) >= 3
  /\ isTraversalComplete(mRoot)

\* ------------------------------------------------------------------------
\* Claims about the transcript of an iteration
\* ------------------------------------------------------------------------

\* run r takes the step that follows getCallTranscript
TranscriptStep(r) == run[r].pc = "transcript" /\ run'[r].pc # "transcript"

\* C22 (as claimed): when the concatenated transcript of a completed call is
\* missing or blank and the structured fetch gave no utterance (it failed or was
\* empty), the run ends with an error in that step, with nothing merged and
\* the session file as it was.
C22_NoTranscriptFails ==
  [][\A r \in Runs :
       (/\ TranscriptStep(r)
        /\ LowerStatus(run[r].done.status) = "completed"
        /\ ~NonBlank(run[r].done.concatenated_transcript)
        /\ ~(run'[r].pc = "extract" /\ run'[r].transcript # << >>))
       => /\ run'[r].pc = "done"
          /\ run'[r].outcome.kind = "error"
          /\ disk' = disk]_vars

\* C23: the transcript merged in an iteration is the structured transcript
\* whenever the fetch gave at least one utterance; it is another one only
\* when the fetch failed or gave none and the concatenated string is not
\* blank, and then it is the concatenated transcript, parsed.
C23_StructuredPreferred ==
  \A r \in Runs :
    run[r].fetched # << >> =>
      LET structured == run[r].fetched[1]
          concat == run[r].done.concatenated_transcript
      IN /\ (structured.error = Null /\ structured.messages # << >>)
              => run[r].transcript = structured.messages
         /\ run[r].transcript # structured.messages
              => /\ structured.error # Null \/ structured.messages = << >>
                 /\ NonBlank(concat)
                 /\ run[r].transcript = parseConcatenatedTranscript(concat)

\* the structured fetch failed and the utterances parsed from the
\* concatenated transcript are being merged
C23_Witness ==
  \E r \in Runs :
    /\ run[r].fetched # << >>
    /\ run[r].fetched[1].error # Null
    /\ Len(run[r].transcript) = 3

\* ------------------------------------------------------------------------
\* Claims about the identity of the session
\* ------------------------------------------------------------------------

\* the number has 10 digits, or 11 digits the first of which is the country
\* prefix 1, or is in international form already (a leading +)
CanBeNormalized(phone) ==
  LET digits == {i \in 1..Len(phone) : phone[i] \in DigitChars}
      first == IF digits = {} THEN 0 ELSE MinOf(digits)
      plus == {i \in 1..Len(phone) : phone[i] # " "}
  IN \/ Cardinality(digits) = 10
     \/ Cardinality(digits) = 11 /\ phone[first] = "1"
     \/ plus # {} /\ phone[MinOf(plus)] = "+"

CallIds(calls) == [i \in 1..Len(calls) |-> calls[i].callId]

\* the calls of the in-memory session of a run once the step it is about to
\* take has been done
OwnCalls(rec) ==
  CallIds(rec.session.calls)
    \o (IF rec.pc = "extract" THEN <<rec.callId>> ELSE << >>)

\* C25: every write of the session file is made by one run and puts there
\* that run's own in-memory session: the calls in the file are then the
\* calls that run loaded and recorded, with one snapshot for each of its
\* records, whatever another run had written; so after overlapping runs the
\* file is the session of the last save.
C25_LastWriterWins ==
  [][disk' # disk =>
       \E r \in Runs :
         /\ run'[r] # run[r]
         /\ run[r].pc \in {"extract", "plan"}
         /\ disk' # NoFile
         /\ CallIds(disk'[1].calls) = OwnCalls(run[r])
         /\ disk'[1].minCalls = run[r].session.minCalls
         /\ disk'[1].maxCalls = run[r].session.maxCalls]_vars

\* two runs have overlapped and both returned a tree after recording calls,
\* and the file holds fewer calls than the two recorded
C25_Witness ==
  /\ \A r \in Runs : run[r].pc = "done" /\ run[r].outcome.kind = "tree"
                       /\ run[r].calls >= 1
  /\ disk # NoFile
  /\ Len(disk[1].calls) < run[1].calls + run[2].calls

\* C26 (as claimed): the session file never holds more call records than
\* the maxCalls of the session.
C26_SessionCallsWithinMaxCalls ==
  disk # NoFile => Len(disk[1].calls) <= disk[1].maxCalls

\* ------------------------------------------------------------------------
\* Claims about stopping a run
\* ------------------------------------------------------------------------

\* C27 (as claimed): once the stop signal has been raised during an
\* iteration, the run places no further call.
C27_StopBetweenIterations ==
  run[1].stopAt # << >> => Placed(1) = run[1].stopAt[1]

\* ------------------------------------------------------------------------
\* Claims about a first call, end to end
\* ------------------------------------------------------------------------

\* the digits, labels and targets of the options of a node
OptionsOf(node) ==
  [i \in 1..Len(node.options) |->
     <<node.options[i].digit, node.options[i].label, node.options[i].targetNodeId>>]

\* C28: after the merge, into no tree, of a call in which the root menu
\* announces 1 (sales) and 2 (support), 1 is pressed and the sales prompt
\* announces 1 (quotes): the root has option 1 linked to the child with id
\* "1" and option 2 pending, that child has the one pending option 1, the
\* pending paths are [["2"],["1","1"]] and the visited paths are [["1"]].
C28_EndToEnd ==
  (mCount = 1 /\ mLast = <<MenuMsg, Press1Msg, SalesMsg>>) =>
    /\ Len(mRoot) = 2
    /\ mRoot[1].id = RootId
    /\ OptionsOf(mRoot[1]) = << <<"1", <<"sales">>, <<"1">>>>,
                               <<"2", <<"support">>, NoId>> >>
    /\ mRoot[2].id = <<"1">>
    /\ mRoot[2].parent = 1
    /\ OptionsOf(mRoot[2]) = << <<"1", <<"quotes">>, NoId>> >>
    /\ planned # << >> =>
         /\ planned[1].pendingPaths = << <<"2">>, <<"1", "1">> >>
         /\ planned[1].visitedPaths = << <<"1">> >>

\* the path sets of the tree of that call have been derived
C28_Witness ==
  /\ mCount = 1
  /\ mLast = <<MenuMsg, Press1Msg, SalesMsg>>
  /\ planned # << >>
  /\ Len(planned[1].pendingPaths) = 2

\* ------------------------------------------------------------------------
\* Claims about the option parser
\* ------------------------------------------------------------------------

HasOption(options, digit, label) ==
  \E i \in 1..Len(options) : options[i].digit = digit /\ options[i].label = label

\* C29 (as claimed): "For sales, press 1. For support, press 2." gives the
\* options ("1", sales) and ("2", support), in that order and no other; and
\* a sentence made of a label followed by press or dial and a digit, in any
\* letter case, gives the option of that digit and label.
C29_OptionParsing ==
  planned # << >> =>
    /\ planned[1].sentences = <<ForSalesPress1, ForSupportPress2>> =>
         planned[1].options = <<[digit |-> "1", label |-> <<"sales">>],
                                [digit |-> "2", label |-> <<"support">>]>>
    /\ InSeq(BillingDial3, planned[1].sentences) =>
         HasOption(planned[1].options, "3", <<"billing">>)
    /\ InSeq(IfSupportPress2, planned[1].sentences) =>
         HasOption(planned[1].options, "2", <<"support">>)

\* ------------------------------------------------------------------------
\* Claims about a press event
\* ------------------------------------------------------------------------

\* the merger just before the last message of transcript u is handled, in a
\* merge into the tree root
BeforeLast(root, u) ==
  MergeWalk([nodes |-> IF root = NoTree THEN <<NewRoot(findFirstGreeting(u))>>
                       ELSE root,
             current |-> RootCursor, stack |-> << >>],
            SubSeq(u, 1, Len(u) - 1))

\* C30 (as claimed): when the last message of a merge is a press of digit d
\* with the cursor at node n with path p, then after the merge the cursor
\* is at a child of n with the id of p followed by d, the cursor it left is
\* on top of the backtrack stack, and every option of n with digit d has
\* that id as its target.
C30_PressResolvesOption ==
  [][(mLast' # << >> /\ mCount' = mCount + 1
        /\ isPressEvent(mLast'[Len(mLast')]).pressed) =>
       LET before == BeforeLast(mRoot, mLast')
           d == isPressEvent(mLast'[Len(mLast')]).digit
           n == before.current.node
           childId == PathId(Append(before.current.path, d))
           after == MergeStep(before, mLast'[Len(mLast')])
       IN /\ after.nodes = mRoot'
          /\ after.current.node \in ChildrenOf(mRoot', n)
          /\ mRoot'[after.current.node].id = childId
          /\ after.current.path = Append(before.current.path, d)
          /\ after.stack = Append(before.stack, before.current)
          /\ \A i \in 1..Len(mRoot'[n].options) :
               mRoot'[n].options[i].digit = d =>
                 mRoot'[n].options[i].targetNodeId = childId]_vars

\* ------------------------------------------------------------------------
\* Claims about a terminal utterance
\* ------------------------------------------------------------------------

\* the last message of transcript u is a user line without parsed options
EndsInTerminal(u) ==
  /\ u # << >>
  /\ u[Len(u)].role = "user"
  /\ ~isPressEvent(u[Len(u)]).pressed
  /\ parseOptions(u[Len(u)].message) = << >>

\* the cursor after a terminal utterance: the entry popped from the stack,
\* or the root when the stack is empty
PoppedTo(before, after) ==
  IF before.stack = << >>
  THEN after.current = RootCursor /\ after.stack = << >>
  ELSE /\ after.current = before.stack[Len(before.stack)]
       /\ after.stack = SubSeq(before.stack, 1, Len(before.stack) - 1)

\* node n has a child that carries the text of msg
HasTerminalChild(nodes, n, msg) ==
  \E c \in ChildrenOf(nodes, n) : nodes[c].promptText = Trim(msg.message)

\* C31 (as claimed): when the last message of a merge is a user line
\* without options, with the cursor at node n, then after the merge n has a
\* child carrying that text, and the cursor is the entry popped from the
\* backtrack stack, or the root when the stack is empty.
C31_TerminalAnywhere ==
  [][(mCount' = mCount + 1 /\ EndsInTerminal(mLast')) =>
       LET before == BeforeLast(mRoot, mLast')
           msg == mLast'[Len(mLast')]
           after == MergeStep(before, msg)
       IN /\ after.nodes = mRoot'
          /\ HasTerminalChild(mRoot', before.current.node, msg)
          /\ PoppedTo(before, after)]_vars

\* C31 (amended): when the last message of a merge is a user line without
\* options, with the cursor at node n with path p: if p is not empty, then
\* after the merge n has one child with the id of p, created by this
\* message or there before it, that carries the text; if the cursor is at
\* the root, the tree is left as it was; in both cases the cursor is the
\* entry popped from the backtrack stack, or the root when the stack is
\* empty.
C31_TerminalBelowRoot ==
  [][(mCount' = mCount + 1 /\ EndsInTerminal(mLast')) =>
       LET before == BeforeLast(mRoot, mLast')
           msg == mLast'[Len(mLast')]
           n == before.current.node
           p == before.current.path
           after == MergeStep(before, msg)
           ends == {c \in ChildrenOf(mRoot', n) : mRoot'[c].id = JoinDash(p)}
       IN /\ after.nodes = mRoot'
          /\ p # << >> =>
               /\ Cardinality(ends) = 1
               /\ \A c \in ends : /\ mRoot'[c].promptText = Trim(msg.message)
                                   /\ mRoot'[c].parentId = mRoot'[n].id
                                   /\ mRoot'[c].options = << >>
               /\ Len(mRoot') = Len(before.nodes)
                                  + (IF FindChild(before.nodes, n, JoinDash(p)) = 0
                                     THEN 1 ELSE 0)
               /\ \A k \in 1..Len(before.nodes) :
                    k \notin ends => mRoot'[k] = before.nodes[k]
          /\ p = << >> => mRoot' = before.nodes
          /\ PoppedTo(before, after)]_vars

\* the terminal node of the submenu of 1 was there before the last merge
\* and has been updated by it
C31_Witness ==
  /\ mCount = 2
  /\ mLast = <<MenuMsg, Press1Msg, ByeMsg>>
  /\ Len(mRoot) = 3
  /\ mRoot[3].id = <<"1">>
  /\ mRoot[3].parent = 2
  /\ mRoot[3].promptText = <<"Goodbye", ".">>

\* ------------------------------------------------------------------------
\* Claims about the tree walks
\* ------------------------------------------------------------------------

\* C32 (as claimed): for the tree of the merger, no digit path is both in
\* the visitedPaths and in the pendingPaths of the full-tree walk.
C32_PathSetsDisjoint ==
  LET sets == collectVisitedAndPendingPaths(mRoot)
  IN \A i \in 1..Len(sets.visitedPaths) :
       ~InSeq(sets.visitedPaths[i], sets.pendingPaths)

\* C33 (as claimed): for the tree of the merger, the completeness check is
\* true exactly when the full-tree walk reports no pending path, and exactly
\* when the scan returns the empty path.
C33_WalksAgree ==
  mRoot # NoTree =>
    /\ isTraversalComplete(mRoot)
         <=> collectVisitedAndPendingPaths(mRoot).pendingPaths = << >>
    /\ isTraversalComplete(mRoot) <=> nextUnvisitedPath(mRoot) = NoPath

\* ------------------------------------------------------------------------
\* SpecTree: calls are recorded in the session file and the tree is read
\* through GET /tree/:sessionId
\* ------------------------------------------------------------------------

\* the transcripts of the recorded calls
TreeTranscripts ==
  PlanTranscripts \cup { <<Press1Msg, MenuMsg>>, <<BillingMsg, MenuMsg, Press1Msg>>,
                         <<Press1Msg, Press1Msg, ByeMsg>>, <<ByeMsg>> }

\* an iteration of run on the session file, up to the save
TreeIteration(transcript) ==
  LedgerIteration("completed", <<5>>, transcript)

TreeForOptionsNoPush(node, path, children, i, st) ==
  LET options == node.options
      linked == SelectSeq(Indices(options), LAMBDA k : options[k].targetNodeId # NoId)
      open == SelectSeq(Indices(options), LAMBDA k : options[k].targetNodeId = NoId)
  IN [st EXCEPT
        !.visitedPaths = @ \o [k \in 1..Len(linked) |->
                                 Append(path, options[linked[k]].digit)],
        !.pendingPaths = @ \o [k \in 1..Len(open) |->
                                 Append(path, options[open[k]].digit)]]

\* the for loop of the handler over the options of the popped node, from
\* option i on; children is the popped node's children array, as indices
RECURSIVE TreeForOptions(_, _, _, _, _)
TreeForOptions(node, path, children, i, st) ==
  IF i > Len(node.options) THEN st
  ELSE LET opt == node.options[i]
           nextPath == Append(path, opt.digit)
           found == {c \in children.ids : children.nodes[c].id = opt.targetNodeId}
       IN TreeForOptions(node, path, children, i + 1,
            IF opt.targetNodeId # NoId
            THEN [st EXCEPT
                    !.visitedPaths = Append(@, nextPath),
                    !.stack = IF found # {}
                              THEN Append(@, [node |-> MinOf(found), path |-> nextPath])
                              ELSE @]
            ELSE [st EXCEPT !.pendingPaths = Append(@, nextPath)])

\* the while loop of the handler over its stack
RECURSIVE TreeWhile(_, _)
TreeWhile(root, st) ==
  IF st.stack = << >> THEN st
  ELSE LET top == st.stack[Len(st.stack)]
       IN TreeWhile(root,
            TreeForOptions(root[top.node], top.path,
                           [ids |-> ChildrenOf(root, top.node), nodes |-> root], 1,
                           [st EXCEPT !.stack = SubSeq(@, 1, Len(@) - 1)]))

NotFound ==
  [status |-> 404, root |-> NoTree, totalCost |-> 0, callsCount |-> 0,
   visitedPaths |-> << >>, pendingPaths |-> << >>]

\* the answer of GET /tree/:sessionId for the session file
getTree(file) ==
  IF file = NoFile \/ file[1].lastRoot = NoTree THEN NotFound
  ELSE LET session == file[1]
           st == TreeWhile(session.lastRoot,
                           [stack |-> <<[node |-> 1, path |-> << >>]>>,
                            visitedPaths |-> << >>, pendingPaths |-> << >>])
       IN [status |-> 200, root |-> session.lastRoot,
           totalCost |-> IF session.totalCost = NoNumber THEN 0
                         ELSE session.totalCost[1],
           callsCount |-> Len(session.calls),
           visitedPaths |-> st.visitedPaths, pendingPaths |-> st.pendingPaths]

\* GET /tree/:sessionId is answered
GetTree ==
  /\ planned = << >>
  /\ planned' = <<getTree(disk)>>
  /\ UNCHANGED <<mRoot, mLast, mCount, mUsed, poll, dvars>>

TreeNext ==
  \/ \E transcript \in TreeTranscripts : TreeIteration(transcript)
  \/ GetTree

SpecTree == Init /\ [][TreeNext]_vars

\* C34: the visited and pending paths in an answer of GET /tree are those
\* that collectVisitedAndPendingPaths gives for the tree of the answer, the
\* persisted tree, in the same order.
C34_HandlerMirrorsService ==
  (planned # << >> /\ planned[1].status = 200) =>
    LET sets == collectVisitedAndPendingPaths(planned[1].root)
    IN /\ planned[1].visitedPaths = sets.visitedPaths
       /\ planned[1].pendingPaths = sets.pendingPaths

\* the answer for a tree of three calls, with a visited path and a pending
\* path below the root level
C34_Witness ==
  /\ planned # << >>
  /\ planned[1].status = 200
  /\ planned[1].callsCount = 3
  /\ \E i \in 1..Len(planned[1].visitedPaths) : Len(planned[1].visitedPaths[i]) = 2
  /\ \E i \in 1..Len(planned[1].pendingPaths) : Len(planned[1].pendingPaths[i]) = 2

\* ------------------------------------------------------------------------
\* SpecRefine: calls are recorded in the session file, then a node of the
\* tree is refined through POST /refine/:nodeId
\* ------------------------------------------------------------------------

\* the transcripts of the calls recorded before the request
RefineTranscripts == { <<MenuMsg, Press1Msg, ByeMsg>>, <<Press1Msg, Press2Msg, ByeMsg>> }

\* an iteration of an earlier run on the session file, up to the save
RefineSeed(transcript) ==
  /\ run[1].pc = "idle"
  /\ planned = << >>
  /\ TreeIteration(transcript)

\* nodeId.split('-').filter(Boolean); every segment of an id is one token
SplitDash(nodeId) == SelectSeq(nodeId, LAMBDA c : c # "-")

\* the input of the run of a refinement
RefineInput(session, nodeId) ==
  [minCalls |-> 1, maxCalls |-> 3, currentRoot |-> session.lastRoot,
   preferredPath |-> SplitDash(nodeId)]

\* POST /refine/:nodeId for node n of the persisted tree, up to the first
\* call of its run; without a persisted tree the answer is Not found
Refine(n) ==
  /\ run[1].pc = "idle"
  /\ planned = << >>
  /\ IF disk = NoFile \/ disk[1].lastRoot = NoTree
     THEN /\ n = 1
          /\ planned' = <<[status |-> 404, node |-> 0, root |-> NoTree]>>
          /\ run' = run
     ELSE /\ n \in 1..Len(disk[1].lastRoot)
          /\ planned' = <<[status |-> 0, node |-> n, root |-> disk[1].lastRoot]>>
          /\ run' = [run EXCEPT ![1] =
               Begin(@, RefineInput(disk[1], disk[1].lastRoot[n].id), disk)]
  /\ UNCHANGED <<mRoot, mLast, mCount, mUsed, poll, disk, provider>>

\* the run has returned and its result is the answer of the request
RefineAnswer ==
  /\ planned # << >>
  /\ planned[1].status = 0
  /\ run[1].pc = "done"
  /\ planned' = <<[planned[1] EXCEPT !.status = 200]>>
  /\ UNCHANGED <<mRoot, mLast, mCount, mUsed, poll, dvars>>

RefineNext ==
  \/ \E transcript \in RefineTranscripts : RefineSeed(transcript)
  \/ \E n \in 1..(2 * MaxLen + 1) : Refine(n)
  \/ RefineAnswer
  \/ MakeCallOk(1)
  \/ MakeCallError(1)
  \/ \E c \in 1..MaxProviderCalls : ProviderFinish(c)
  \/ PollQuery(1)
  \/ PollTimeout(1)
  \/ TranscriptDone(1)
  \/ ExtractDone(1)
  \/ PlanDone(1)
  \/ PlanThrows(1)

SpecRefine == Init /\ [][RefineNext]_vars

\* the digits pressed from the root to reach node n: none for the root; for
\* the terminal node of a menu (it has the id of its parent) those of the
\* menu; else those of the parent and the digit pressed there, the last
\* character of the id
RECURSIVE NodePath(_, _)
NodePath(root, n) ==
  IF root[n].parent = 0 THEN << >>
  ELSE IF root[n].id = root[root[n].parent].id THEN NodePath(root, root[n].parent)
  ELSE Append(NodePath(root, root[n].parent), root[n].id[Len(root[n].id)])

\* C35 (as claimed): the override path of the run of a refinement is the
\* digit path from the root to the node refined, the empty path for the
\* root.
C35_OverrideIsNodePath ==
  (planned # << >> /\ planned[1].status # 404) =>
    run[1].overridePath = NodePath(planned[1].root, planned[1].node)

\* ------------------------------------------------------------------------
\* SpecRunFair: one run, every step of which is taken in the end
\* ------------------------------------------------------------------------

RunNext ==
  \/ \E input \in Inputs : Start(1, input)
  \/ MakeCallOk(1)
  \/ MakeCallError(1)
  \/ \E c \in 1..MaxProviderCalls : ProviderFinish(c)
  \/ PollQuery(1)
  \/ PollTimeout(1)
  \/ TranscriptDone(1)
  \/ ExtractDone(1)
  \/ PlanDone(1)
  \/ PlanThrows(1)

\* every request awaited by the run resolves: makeCall, pollCallUntilDone
\* (it returns by its timeout at the latest), getCallTranscript, the LLM
\* extraction and the LLM plan.  TranscriptDone(1) is enabled exactly when
\* the run is at its transcript step and it always leaves that step, so
\* its weak fairness is stated as: the run is not at that step for ever.
SpecRunFair ==
  /\ Init /\ [][RunNext]_vars
  /\ WF_vars(MakeCallOk(1) \/ MakeCallError(1))
  /\ WF_vars(PollQuery(1) \/ PollTimeout(1))
  /\ []<>(run[1].pc # "transcript")
  /\ WF_vars(ExtractDone(1))
  /\ WF_vars(PlanDone(1) \/ PlanThrows(1))

\* the session file holds a record of call c, and its total is the sum of
\* the prices of its records
Persisted(c) ==
  /\ disk # NoFile
  /\ \E i \in 1..Len(disk[1].calls) : disk[1].calls[i].callId = c
  /\ disk[1].totalCost = <<SumPrices(disk[1].calls)>>

\* C36 (as claimed): every call that was placed on the provider has, in the
\* end, a call record in the session file, with its price in the total.
C36_EveryCallPersisted ==
  \A c \in 1..MaxProviderCalls : (Len(provider) >= c) ~> Persisted(c)

\* ------------------------------------------------------------------------
\* Claims about the first call of a run
\* ------------------------------------------------------------------------

\* run r has returned a tree
ReturnedTree(r) == run[r].pc = "done" /\ run[r].outcome.kind = "tree"

\* C37: a run that returns a tree has placed a call and completed an
\* iteration, also when the tree it started on was complete; a run returns
\* a tree only from the end of an iteration (the step after the plan), never
\* from its start.
C37_CallBeforeTree ==
  /\ [](\A r \in Runs : ReturnedTree(r) => run[r].calls >= 1 /\ Placed(r) >= 1)
  /\ [][\A r \in Runs :
         (run[r].pc # "done" /\ run'[r].pc = "done" /\ run'[r].outcome.kind = "tree")
           => run[r].pc = "plan"]_vars

\* the second run has started on a persisted tree that is complete and is
\* placing its first call
C37_Witness ==
  /\ run[2].pc = "makeCall"
  /\ run[2].calls = 0
  /\ Placed(2) = 0
  /\ run[2].root # NoTree
  /\ disk # NoFile
  /\ run[2].root = disk[1].lastRoot
  /\ isTraversalComplete(run[2].root)

\* ------------------------------------------------------------------------
\* Claims about the end of a run
\* ------------------------------------------------------------------------

\* C38: when every request the run awaits resolves, a run that has started
\* ends with an error (returned, or thrown by the plan) or with a tree; it
\* completes at most maxCalls iterations and places at most maxCalls calls,
\* and the poll of an iteration makes at most MaxPolls queries before its
\* timeout.
C38_RunTerminates ==
  /\ [](run[1].calls <= run[1].maxCalls /\ Placed(1) <= run[1].maxCalls)
  /\ [](run[1].polls <= MaxPolls)
  /\ [](run[1].pc = "done" => run[1].outcome.kind \in {"error", "tree", "threw"})
  /\ (run[1].pc # "idle") ~> (run[1].pc = "done")

\* the run has returned its tree after maxCalls calls that left an option
\* of the tree pending
C38_Witness ==
  /\ ReturnedTree(1)
  /\ run[1].maxCalls = 2
  /\ run[1].calls = 2
  /\ ~isTraversalComplete(run[1].root)

\* ------------------------------------------------------------------------
\* SpecSeed: runs on one identity, one after the other, with or without a
\* tree in the request
\* ------------------------------------------------------------------------

\* the trees a request can carry as currentRoot: here the tree of a menu
\* that was never stored in the session
SeedTrees == {buildGraphDeterministic(<<ByeMsg>>, NoTree)}

\* requests with and without currentRoot
SeedInputs ==
  {[minCalls |-> 1, maxCalls |-> b, currentRoot |-> c, preferredPath |-> << >>] :
     b \in 1..2, c \in {<< >>} \cup SeedTrees}

\* run(input), called when the run before it has returned
SeedStart(r, input) ==
  /\ \A q \in 1..(r - 1) : run[q].pc = "done"
  /\ Start(r, input)

SeedNext ==
  \/ \E r \in Runs, input \in SeedInputs : SeedStart(r, input)
  \/ \E r \in Runs : MakeCallOk(r)
  \/ \E r \in Runs : MakeCallError(r)
  \/ \E c \in 1..MaxProviderCalls : ProviderFinish(c)
  \/ \E r \in Runs : PollQuery(r)
  \/ \E r \in Runs : PollTimeout(r)
  \/ \E r \in Runs : TranscriptDone(r)
  \/ \E r \in Runs : ExtractDone(r)
  \/ \E r \in Runs : PlanDone(r)
  \/ \E r \in Runs : PlanThrows(r)

SpecSeed == Init /\ [][SeedNext]_vars

\* C39 (as claimed): a write of the session file keeps every node and
\* every option of the last tree the file held, whatever tree the request
\* of the run carried.
C39_PersistedTreeOnlyGrows ==
  [][(disk # NoFile /\ disk' # NoFile) =>
       Keeps(disk[1].lastRoot, disk'[1].lastRoot)]_vars

=============================================================================
